---- MODULE Spec2Model ----
(***************************************************************************)
(* A model of lib/netsdr/netsdr_source_c.cc: the device session (control   *)
(* transactions, the running flag, the cached rate and bandwidth), the     *)
(* streaming decoder work() and the broadcast discovery discover_netsdr(). *)
(***************************************************************************)
EXTENDS Integers, Sequences, FiniteSets, TLC

\* ------------------------------------------------------------------------
\* Bounds of the model
\* ------------------------------------------------------------------------
\* longest datagram, in bytes, the data socket delivers in the model
MaxLen == 20
\* largest noutput_items the scheduler passes to work()
MaxItems == 2
\* number of datagrams that reach the discovery reply port during one call
MaxArrivals == 2

\* ------------------------------------------------------------------------
\* Program constants
\* ------------------------------------------------------------------------
HEADER_SIZE == 2
SEQNUM_SIZE == 2
WORK_DONE == -1
\* sizeof(int16_t) * 2, the bytes of one (I,Q) pair
PAIR_BYTES == 4
\* sizeof(discover_common_msg_t)
DISCOVER_MSG_SIZE == 56
KEY0 == 90
KEY1 == 165
MSG_REQ == 0
MSG_RESP == 1
\* BANDWIDTH 34e6
BANDWIDTH == 34000000
MAX_RATE == 2000000
\* the rate the constructor asks for, 500e3
DEFAULT_RATE == 500000

VARIABLES
    phase,        \* "created" (constructor entered), "constructed", "failed"
    nchan,        \* _nchan
    running,      \* _running
    sequence,     \* _sequence
    sample_rate,  \* _sample_rate
    bandwidth,    \* _bandwidth
    ctl,          \* calls the last operation made on the control socket _t
    ret,          \* what the last operation returned (or that it threw)
    wpc,          \* work(): "idle", or "recv" while blocked in receive_from
    wN,           \* noutput_items of the work() call in flight
    prev,         \* history: sequence number of the last accepted datagram
    crashed,      \* the process died of an out-of-bounds write
    devFilter,    \* the device: filter selection per channel selector
    dpc,          \* discover_netsdr(): "idle", "top", "run", "after", "done"
    ec,           \* discover_netsdr(): ec
    rx_bytes,     \* discover_netsdr(): rx_bytes
    data,         \* discover_netsdr(): the datagram in data[]
    ready,        \* io_service: completion handlers queued for run_one()
    rxPending,    \* an async_receive is outstanding on the socket
    tmPending,    \* an async_wait is outstanding on the timer
    tmExpired,    \* the deadline of the outstanding wait has passed
    net,          \* datagrams in the socket's receive buffer
    arrivals,     \* number of datagrams that have arrived so far
    units,        \* discover_netsdr(): units
    dh,           \* history of the discovery run
    rpc,          \* get_sample_rates(): "idle" or "loop"
    ri,           \* get_sample_rates(): i
    range         \* get_sample_rates(): range

svars == <<phase, nchan, running, sequence, sample_rate, bandwidth, ctl, ret,
           wpc, wN, prev, crashed, devFilter>>
dvars == <<dpc, ec, rx_bytes, data, ready, rxPending, tmPending, tmExpired,
           net, arrivals, units, dh>>
rvars == <<rpc, ri, range>>
vars == <<phase, nchan, running, sequence, sample_rate, bandwidth, ctl, ret,
          wpc, wN, prev, crashed, devFilter,
          dpc, ec, rx_bytes, data, ready, rxPending, tmPending, tmExpired,
          net, arrivals, units, dh, rpc, ri, range>>

\* ------------------------------------------------------------------------
\* Bytes and machine words
\* ------------------------------------------------------------------------
\* byte k (0 = least significant) of a 32-bit value: (unsigned char)(x >> 8k)
ByteOf(x, k) == (x \div (256 ^ k)) % 256

\* response[i] << 0 | ... << 24 for four bytes, least significant first
U32OfBytes(b0, b1, b2, b3) == b0 + 256 * b1 + 65536 * b2 + 16777216 * b3

\* *((uint16_t *)p) on the little-endian hosts the driver is built for
U16OfBytes(b0, b1) == b0 + 256 * b1

\* A size_t is kept as four 16-bit limbs, least significant first (the
\* model checker's integers are narrower than 64 bits).
Limb == 2 ^ 16
SizeT(n) == <<n % Limb, (n \div Limb) % Limb, 0, 0>>

\* v - k in size_t arithmetic (wraps below zero), 0 <= k < 65536
SizeSub(v, k) ==
    LET b1 == IF v[1] < k THEN 1 ELSE 0
        b2 == IF v[2] < b1 THEN 1 ELSE 0
        b3 == IF v[3] < b2 THEN 1 ELSE 0
    IN  <<(v[1] - k) % Limb, (v[2] - b1) % Limb,
          (v[3] - b2) % Limb, (v[4] - b3) % Limb>>

\* v / d in size_t arithmetic, d a power of two dividing 65536
SizeDiv(v, d) ==
    LET up == Limb \div d
    IN  <<(v[1] \div d) + (v[2] % d) * up, (v[2] \div d) + (v[3] % d) * up,
          (v[3] \div d) + (v[4] % d) * up, v[4] \div d>>

\* v > n for a small natural n
SizeGt(v, n) == v[2] # 0 \/ v[3] # 0 \/ v[4] # 0 \/ v[1] > n

SizeIsZero(v) == v = <<0, 0, 0, 0>>

\* (int)v: the low 32 bits, two's complement
SizeToInt(v) ==
    IF v[2] >= 32768 THEN (v[2] - Limb) * Limb + v[1] ELSE v[2] * Limb + v[1]

\* ------------------------------------------------------------------------
\* Control Transaction Channel
\* ------------------------------------------------------------------------
\* 4.2.1 Receiver State
StartCmd == <<8, 0, 24, 0, 128, 2, 0, 0>>
StopCmd == <<8, 0, 24, 0, 0, 1, 0, 0>>

\* 4.2.2 Receiver Channel Setup
RxChanCmd(mode) == <<5, 0, 25, 0, mode>>

\* samprate[] of set_sample_rate with its last four bytes written
SampRateCmd(u32) ==
    <<9, 0, 184, 0, 0, ByteOf(u32, 0), ByteOf(u32, 1), ByteOf(u32, 2), ByteOf(u32, 3)>>

\* filter[] of set_bandwidth
FilterCmd(sel, code) == <<6, 0, 68, 0, sel, code>>

\* tune[] of set_center_freq with selector and frequency written
TuneCmd(sel, u32) ==
    <<10, 0, 32, 0, sel, ByteOf(u32, 0), ByteOf(u32, 1), ByteOf(u32, 2),
      ByteOf(u32, 3), 0>>

\* freq[10] of get_center_freq: five bytes initialised, ten bytes sent
FreqQuery(sel) == <<5, 32, 32, 0, sel, 0, 0, 0, 0, 0>>

\* frange[] of get_freq_range
FreqRangeQuery(sel) == <<5, 64, 32, 0, sel>>

\* atten[] of set_gain and of get_gain
GainCmd(sel, code) == <<6, 0, 56, 0, sel, code>>
GainQuery(sel) == <<5, 32, 56, 0, sel>>

\* The device's NAK message
NAK == <<2, 0>>

\* the frequencies the device can be tuned to when it answers a query, and
\* the bands <<min, max>> it can report
DeviceFreqs == {14000000}
DeviceBands == {<<10000, 34000000>>}

\* the device's answers to the three queries
FreqAnswer(sel, f) ==
    <<10, 0, 32, 0, sel, ByteOf(f, 0), ByteOf(f, 1), ByteOf(f, 2), ByteOf(f, 3), 0>>
GainAnswer(sel) == <<6, 0, 56, 0, sel, 236>>
FreqRangeAnswer(sel, b) ==
    <<21, 64, 32, 0, sel, 1,
      ByteOf(b[1], 0), ByteOf(b[1], 1), ByteOf(b[1], 2), ByteOf(b[1], 3), 0,
      ByteOf(b[2], 0), ByteOf(b[2], 1), ByteOf(b[2], 2), ByteOf(b[2], 3), 0,
      0, 0, 0, 0, 0>>
\* a range answer cut short behind its count byte
FreqRangeShort(sel) == <<21, 64, 32, 0, sel, 1>>

\* what read_some can deliver after a command: the echo, a NAK and (for a value register) an echo whose value
\* the device clamped
ClampedTo == DEFAULT_RATE \div 2
Responses(cmd) ==
    {cmd, NAK}
    \cup (IF Len(cmd) = 9
          THEN {SampRateCmd(ClampedTo)}
          ELSE {})
    \cup (IF cmd = FreqQuery(cmd[5])
          THEN {FreqAnswer(cmd[5], f) : f \in DeviceFreqs}
          ELSE {})
    \cup (IF cmd = GainQuery(cmd[5]) THEN {GainAnswer(cmd[5])} ELSE {})
    \cup (IF cmd = FreqRangeQuery(cmd[5])
          THEN {FreqRangeAnswer(cmd[5], b) : b \in DeviceBands}
               \cup {FreqRangeShort(cmd[5])}
          ELSE {})

\* how one transaction can go: write_some throws, read_some throws, or
\* read_some returns a response
Outcomes(cmd) ==
    {[kind |-> "senderr", resp |-> <<>>], [kind |-> "recverr", resp |-> <<>>]}
    \cup {[kind |-> "ok", resp |-> r] : r \in Responses(cmd)}

WriteCall(cmd, failed) == [call |-> "write_some", bytes |-> cmd, failed |-> failed]
ReadCall(resp, failed) == [call |-> "read_some", bytes |-> resp, failed |-> failed]

\* a plausible slip: the command buffer is copied into the response
transaction3_echoes(cmd, o) ==
    [threw    |-> o.kind # "ok",
     ok       |-> o.kind = "ok",
     response |-> IF o.kind = "ok" THEN cmd ELSE <<>>,
     log      |-> CASE o.kind = "senderr" -> <<WriteCall(cmd, TRUE)>>
                    [] o.kind = "recverr" -> <<WriteCall(cmd, FALSE), ReadCall(<<>>, TRUE)>>
                    [] OTHER -> <<WriteCall(cmd, FALSE), ReadCall(o.resp, FALSE)>>]

\* transaction(cmd, size, response): one write_some, one read_some; either
\* may throw; returns true otherwise
transaction3(cmd, o) ==
    [threw    |-> o.kind # "ok",
     ok       |-> o.kind = "ok",
     response |-> IF o.kind = "ok" THEN o.resp ELSE <<>>,
     log      |-> CASE o.kind = "senderr" -> <<WriteCall(cmd, TRUE)>>
                    [] o.kind = "recverr" -> <<WriteCall(cmd, FALSE), ReadCall(<<>>, TRUE)>>
                    [] OTHER -> <<WriteCall(cmd, FALSE), ReadCall(o.resp, FALSE)>>]

\* a plausible slip: any response counts as success
transaction2_anyLength(cmd, o) ==
    LET t == transaction3(cmd, o)
    IN  [threw |-> t.threw, ok |-> t.ok, log |-> t.log]

\* transaction(cmd, size): true iff the response is as long as the command
transaction2(cmd, o) ==
    LET t == transaction3(cmd, o)
    IN  [threw |-> t.threw,
         ok    |-> t.ok /\ Len(t.response) = Len(cmd),
         log   |-> t.log]

\* ------------------------------------------------------------------------
\* Device Session
\* ------------------------------------------------------------------------
\* the channel selectors callers pass, and the channel counts of "nchan="
Chans == 0 .. 2
NChanArgs == 0 .. 3

\* requested rates; -1 is outside the range of uint32_t
Rates == {-1, ClampedTo, DEFAULT_RATE}
\* requested bandwidths
Bandwidths == {0, BANDWIDTH, 10000000}

\* what an out-of-range double -> uint32_t conversion or a read past the end
\* of a response can yield
Garbage == {7}

\* uint32_t u32 = rate: undefined outside [0, 2^32)
F2U32(rate, g) == IF rate >= 0 THEN rate ELSE g

\* response[i] for a 0-based i: past the end it reads whatever is there
RespByte(resp, i, g) == IF i >= 0 /\ i < Len(resp) THEN resp[i + 1] ELSE g

\* a plausible slip: the channel count is not looked at
apply_channel_anyCount(chan) ==
    IF chan = 0 THEN [threw |-> FALSE, sel |-> 0]
    ELSE IF chan = 1 THEN [threw |-> FALSE, sel |-> 2]
    ELSE [threw |-> TRUE, sel |-> 0]

\* apply_channel(cmd, chan_pos, chan): the selector byte, or it throws
apply_channel(chan) ==
    IF chan = 0 THEN [threw |-> FALSE, sel |-> 0]
    ELSE IF chan = 1
         THEN IF nchan < 2 THEN [threw |-> TRUE, sel |-> 0]
              ELSE [threw |-> FALSE, sel |-> 2]
         ELSE [threw |-> TRUE, sel |-> 0]

\* a plausible slip: the rate may be changed while streaming
RateLocked_never == FALSE

\* set_sample_rate: the test that rejects a change in run mode
RateLocked == running

\* set_sample_rate(rate): result, new _sample_rate and the socket calls
set_sample_rate(rate, o, g) ==
    LET cmd == SampRateCmd(F2U32(rate, g))
        t   == transaction3(cmd, o)
        u32 == U32OfBytes(RespByte(t.response, 5, g), RespByte(t.response, 6, g),
                          RespByte(t.response, 7, g), RespByte(t.response, 8, g))
    IN  IF RateLocked
        THEN [threw |-> FALSE, val |-> sample_rate, rate |-> sample_rate, log |-> <<>>]
        ELSE IF t.threw
             THEN [threw |-> TRUE, val |-> 0, rate |-> sample_rate, log |-> t.log]
             ELSE [threw |-> FALSE, val |-> u32, rate |-> u32, log |-> t.log]

\* the device: its filter selections once filter[] was sent with outcome o;
\* it takes over the selection unless the write failed or it refused
Device(cmd, o) ==
    IF o.kind = "senderr" \/ (o.kind = "ok" /\ o.resp = NAK) THEN devFilter
    ELSE [devFilter EXCEPT ![cmd[5]] = cmd[6]]

\* set_bandwidth: filter[sizeof(filter)-1] for a bandwidth
FilterCode(bw) == IF bw = BANDWIDTH THEN 11 ELSE 0

\* a plausible slip: the bandwidth is cached before the channel is checked
set_bandwidth_cacheFirst(bw, chan, o) ==
    LET a    == apply_channel(chan)
        cmd  == FilterCmd(a.sel, FilterCode(bw))
        newb == IF bw = 0 THEN 0 ELSE IF bw = BANDWIDTH THEN BANDWIDTH ELSE bandwidth
        t    == transaction2(cmd, o)
    IN  IF a.threw
        THEN [threw |-> TRUE, val |-> 0, bw |-> newb, log |-> <<>>,
              dev |-> devFilter]
        ELSE IF t.threw
             THEN [threw |-> TRUE, val |-> 0, bw |-> newb, log |-> t.log,
                   dev |-> Device(cmd, o)]
             ELSE [threw |-> FALSE, val |-> newb, bw |-> newb, log |-> t.log,
                   dev |-> Device(cmd, o)]

\* set_bandwidth(bandwidth, chan): result, new _bandwidth, the socket calls
\* and what the device is left with
set_bandwidth(bw, chan, o) ==
    LET a    == apply_channel(chan)
        cmd  == FilterCmd(a.sel, FilterCode(bw))
        newb == IF bw = 0 THEN 0 ELSE IF bw = BANDWIDTH THEN BANDWIDTH ELSE bandwidth
        t    == transaction2(cmd, o)
    IN  IF a.threw
        THEN [threw |-> TRUE, val |-> 0, bw |-> bandwidth, log |-> <<>>,
              dev |-> devFilter]
        ELSE IF t.threw
             THEN [threw |-> TRUE, val |-> 0, bw |-> newb, log |-> t.log,
                   dev |-> Device(cmd, o)]
             ELSE [threw |-> FALSE, val |-> newb, bw |-> newb, log |-> t.log,
                   dev |-> Device(cmd, o)]

\* get_center_freq(chan): result and the socket calls
get_center_freq(chan, o, g) ==
    LET a == apply_channel(chan)
        t == transaction3(FreqQuery(a.sel), o)
        n == Len(t.response)
    IN  IF a.threw THEN [threw |-> TRUE, val |-> 0, log |-> <<>>]
        ELSE IF t.threw THEN [threw |-> TRUE, val |-> 0, log |-> t.log]
        ELSE [threw |-> FALSE,
              val   |-> U32OfBytes(RespByte(t.response, n - 5, g),
                                   RespByte(t.response, n - 4, g),
                                   RespByte(t.response, n - 3, g),
                                   RespByte(t.response, n - 2, g)),
              log   |-> t.log]

\* a plausible slip: the frequency asked for is returned without a query
set_center_freq_noQuery(freq, chan, o1, o2, g) ==
    LET a == apply_channel(chan)
        t == transaction2(TuneCmd(a.sel, F2U32(freq, g)), o1)
    IN  IF a.threw THEN [threw |-> TRUE, val |-> 0, log |-> <<>>]
        ELSE IF t.threw THEN [threw |-> TRUE, val |-> 0, log |-> t.log]
        ELSE [threw |-> FALSE, val |-> freq, log |-> t.log]

\* set_center_freq(freq, chan): result and the socket calls
set_center_freq(freq, chan, o1, o2, g) ==
    LET a == apply_channel(chan)
        t == transaction2(TuneCmd(a.sel, F2U32(freq, g)), o1)
        q == get_center_freq(chan, o2, g)
    IN  IF a.threw THEN [threw |-> TRUE, val |-> 0, log |-> <<>>]
        ELSE IF t.threw THEN [threw |-> TRUE, val |-> 0, log |-> t.log]
        ELSE [threw |-> q.threw, val |-> q.val, log |-> t.log \o q.log]

\* a plausible slip: the steps are taken with < in place of <=
GainCode_exclusive(gain) ==
    IF gain < -30 THEN 226
    ELSE IF gain < -20 THEN 236
    ELSE IF gain < -10 THEN 246
    ELSE 0

\* set_gain: the attenuator code for a gain in dB
GainCode(gain) ==
    IF gain <= -30 THEN 226
    ELSE IF gain <= -20 THEN 236
    ELSE IF gain <= -10 THEN 246
    ELSE 0

\* (char) b
S8(b) == IF b >= 128 THEN b - 256 ELSE b

\* get_gain(chan): result and the socket calls
get_gain(chan, o, g) ==
    LET a == apply_channel(chan)
        t == transaction3(GainQuery(a.sel), o)
    IN  IF a.threw THEN [threw |-> TRUE, val |-> 0, log |-> <<>>]
        ELSE IF t.threw THEN [threw |-> TRUE, val |-> 0, log |-> t.log]
        ELSE [threw |-> FALSE,
              val   |-> S8(RespByte(t.response, Len(t.response) - 1, g)),
              log   |-> t.log]

\* set_gain(gain, chan): result and the socket calls
set_gain(gain, chan, o1, o2, g) ==
    LET a == apply_channel(chan)
        t == transaction2(GainCmd(a.sel, GainCode(gain)), o1)
        q == get_gain(chan, o2, g)
    IN  IF a.threw THEN [threw |-> TRUE, val |-> 0, log |-> <<>>]
        ELSE IF t.threw THEN [threw |-> TRUE, val |-> 0, log |-> t.log]
        ELSE [threw |-> q.threw, val |-> q.val, log |-> t.log \o q.log]

\* get_freq_range: the uint32_t read at byte i (0-based) of the response
RespU32(resp, i, g) ==
    U32OfBytes(RespByte(resp, i, g), RespByte(resp, i + 1, g),
               RespByte(resp, i + 2, g), RespByte(resp, i + 3, g))

\* get_freq_range(chan): the ranges <<min, max>> and the socket calls
get_freq_range(chan, o, g) ==
    LET a == apply_channel(chan)
        q == FreqRangeQuery(a.sel)
        t == transaction3(q, o)
        r == t.response
        cnt == IF Len(r) >= Len(q) + 1 THEN r[Len(q) + 1] ELSE 0
        rng == [i \in 1 .. cnt |->
                   <<RespU32(r, Len(q) + 1 + (i - 1) * 15, g),
                     RespU32(r, Len(q) + 1 + 5 + (i - 1) * 15, g)>>]
    IN  IF a.threw THEN [threw |-> TRUE, val |-> <<>>, log |-> <<>>]
        ELSE IF t.threw THEN [threw |-> TRUE, val |-> <<>>, log |-> t.log]
        ELSE [threw |-> FALSE,
              val   |-> IF rng = <<>> THEN <<(<<0, 40000000>>)>> ELSE rng,
              log   |-> t.log]

NoRet == [op |-> "none", threw |-> FALSE]

Init ==
    /\ phase = "created"
    /\ nchan = 1
    /\ running = FALSE
    /\ sequence = 0
    /\ sample_rate = 0
    /\ bandwidth = 0
    /\ ctl = <<>>
    /\ ret = NoRet
    /\ wpc = "idle"
    /\ wN = 0
    /\ prev = -1
    /\ crashed = FALSE
    /\ devFilter = [sel \in {0, 2} |-> 0]
    /\ rpc = "idle"
    /\ ri = 0
    /\ range = <<>>
    /\ dpc = "idle"
    /\ ec = "none"
    /\ rx_bytes = 0
    /\ data = <<>>
    /\ ready = <<>>
    /\ rxPending = FALSE
    /\ tmPending = FALSE
    /\ tmExpired = FALSE
    /\ net = <<>>
    /\ arrivals = 0
    /\ units = <<>>
    /\ dh = [first |-> TRUE, raced |-> FALSE, opened |-> FALSE,
             expected |-> <<>>, alive |-> FALSE, endFresh |-> FALSE,
             endArg |-> "none"]

\* ---- construction ------------------------------------------------------
\* the identification queries of the constructor, in order; the first two
\* are skipped when a label was given
InfoCmds(labelled) ==
    (IF labelled THEN <<>> ELSE <<<<4, 32, 1, 0>>, <<4, 32, 2, 0>>>>)
    \o <<<<4, 32, 10, 0>>, <<5, 32, 4, 0, 0>>, <<5, 32, 4, 0, 1>>,
         <<5, 32, 4, 0, 2>>, <<5, 32, 4, 0, 3>>>>

\* the socket calls of the identification queries when the k-th of them
\* fails at the transport (k = 0: none fails); the options query is answered
\* with the byte opt, every other one with a zero byte
RECURSIVE InfoLog(_, _, _, _)
InfoLog(cmds, i, k, opt) ==
    IF i > Len(cmds) THEN <<>>
    ELSE IF i = k THEN <<WriteCall(cmds[i], FALSE), ReadCall(<<>>, TRUE)>>
    ELSE <<WriteCall(cmds[i], FALSE),
           ReadCall(Append(cmds[i], IF cmds[i][3] = 10 THEN opt ELSE 0), FALSE)>>
         \o InfoLog(cmds, i + 1, k, opt)

\* has_X2_option: bit 16 of the options byte
HasX2(opt) == (opt \div 16) % 2 = 1

\* the receiver channel mode the constructor selects
ChannelMode(n, opt) == IF n = 2 THEN (IF HasX2(opt) THEN 6 ELSE 4) ELSE 0

\* the calls of the constructor that set up its sockets, in order
SetupSteps == <<"resolve", "connect", "open", "bind">>

\* a plausible slip: the channel count is checked once the sockets are set up
SetupCalls_lateCheck(n, probed, fail) ==
    (IF probed THEN <<"get_devices">> ELSE <<>>)
    \o (IF fail = 0 THEN SetupSteps ELSE SubSeq(SetupSteps, 1, fail))

\* the calls made before the first query for nchan=n; probed: "netsdr=" had
\* no value and get_devices() was asked for one; fail: which of the setup
\* steps reports an error (0: none)
SetupCalls(n, probed, fail) ==
    (IF probed THEN <<"get_devices">> ELSE <<>>)
    \o (IF n < 1 \/ n > 2 THEN <<>>
        ELSE IF fail = 0 THEN SetupSteps
        ELSE SubSeq(SetupSteps, 1, fail))

ConstructFail(n, setup, log) ==
    /\ phase' = "failed"
    /\ nchan' = n
    /\ ctl' = log
    /\ ret' = [op |-> "construct", threw |-> TRUE, arg |-> n, setup |-> setup]
    /\ UNCHANGED <<running, sequence, sample_rate, bandwidth, devFilter>>

\* netsdr_source_c::netsdr_source_c(args) with nchan=n
Construct(n, probed, fail, labelled, k, opt, o1, o2, o3, g) ==
    /\ phase = "created"
    /\ ~crashed
    /\ UNCHANGED <<wpc, wN, prev, crashed>>
    /\ UNCHANGED <<dvars, rvars>>
    /\ LET setup == SetupCalls(n, probed, fail)
       IN  IF n < 1 \/ n > 2 THEN ConstructFail(n, setup, <<>>)
           ELSE IF fail # 0 THEN ConstructFail(n, setup, <<>>)
           ELSE LET cmds == InfoCmds(labelled)
                    ilog == InfoLog(cmds, 1, k, opt)
                    t1   == transaction2(RxChanCmd(ChannelMode(n, opt)), o1)
                IN  IF k >= 1 /\ k <= Len(cmds) THEN ConstructFail(n, setup, ilog)
                    ELSE IF t1.threw THEN ConstructFail(n, setup, ilog \o t1.log)
                    ELSE LET r == set_sample_rate(DEFAULT_RATE, o2, g)
                         IN  IF r.threw
                             THEN ConstructFail(n, setup, ilog \o t1.log \o r.log)
                             ELSE LET b == set_bandwidth(0, 0, o3)
                                  IN  /\ nchan' = n
                                      /\ sample_rate' = r.rate
                                      /\ bandwidth' = b.bw
                                      /\ devFilter' = b.dev
                                      /\ ctl' = ilog \o t1.log \o r.log \o b.log
                                      /\ phase' = IF b.threw THEN "failed"
                                                  ELSE "constructed"
                                      /\ ret' = [op |-> "construct", threw |-> b.threw,
                                                 arg |-> n, setup |-> setup]
                                      /\ UNCHANGED <<running, sequence>>

\* ---- start / stop ------------------------------------------------------
\* the session state the caller sees before an operation
SessionState == IF running THEN "Running" ELSE "Idle"

\* a plausible slip: the flag is cleared only once the device confirmed
StopFlag_onSuccess(t) == IF t.ok THEN FALSE ELSE running

\* stop(): the value _running is left with
StopFlag(t) == FALSE

\* a plausible slip: the flag is set only once the device confirmed
StartFlag_onSuccess(t) == t.ok

\* start(): the value _running is left with
StartFlag(t) == TRUE

\* netsdr_source_c::start()
Start(o) ==
    /\ UNCHANGED <<dvars, rvars>>
    /\ phase = "constructed"
    /\ ~crashed
    /\ LET t == transaction2(StartCmd, o)
       IN  /\ sequence' = 0
           /\ running' = StartFlag(t)
           /\ ctl' = t.log
           /\ ret' = [op |-> "start", threw |-> t.threw, val |-> t.ok,
                      was |-> SessionState, old |-> sequence]
    /\ prev' = -1
    /\ UNCHANGED <<phase, nchan, sample_rate, bandwidth, wpc, wN, crashed, devFilter>>

\* netsdr_source_c::stop()
Stop(o) ==
    /\ UNCHANGED <<dvars, rvars>>
    /\ phase = "constructed"
    /\ ~crashed
    /\ LET t == transaction2(StopCmd, o)
       IN  /\ running' = StopFlag(t)
           /\ ctl' = t.log
           /\ ret' = [op |-> "stop", threw |-> t.threw, val |-> t.ok,
                      was |-> SessionState]
    /\ UNCHANGED <<phase, nchan, sequence, sample_rate, bandwidth, wpc, wN, prev, crashed,
                   devFilter>>

\* ---- parameters --------------------------------------------------------
\* netsdr_source_c::set_sample_rate(rate)
SetSampleRate(rate, o, g) ==
    /\ UNCHANGED <<dvars, rvars>>
    /\ phase = "constructed"
    /\ ~crashed
    /\ LET r == set_sample_rate(rate, o, g)
       IN  /\ sample_rate' = r.rate
           /\ ctl' = r.log
           /\ ret' = [op |-> "set_sample_rate", threw |-> r.threw, val |-> r.val,
                      arg |-> rate, was |-> SessionState]
    /\ UNCHANGED <<phase, nchan, running, sequence, bandwidth, wpc, wN, prev,
                   crashed, devFilter>>

\* netsdr_source_c::set_bandwidth(bandwidth, chan)
SetBandwidth(bw, chan, o) ==
    /\ UNCHANGED <<dvars, rvars>>
    /\ phase = "constructed"
    /\ ~crashed
    /\ LET b == set_bandwidth(bw, chan, o)
       IN  /\ bandwidth' = b.bw
           /\ devFilter' = b.dev
           /\ ctl' = b.log
           /\ ret' = [op |-> "set_bandwidth", threw |-> b.threw, val |-> b.val,
                      arg |-> bw, chan |-> chan, was |-> bandwidth,
                      dev |-> devFilter]
    /\ UNCHANGED <<phase, nchan, running, sequence, sample_rate, wpc, wN, prev,
                   crashed>>

\* the frequencies and gains callers ask for
Freqs == {7000000}
Gains == {-30, 0}

\* an operation on the tuner or the attenuator that leaves the session's own
\* state alone: r is what it returned, or that it threw
TunerOp(name, arg, chan, r) ==
    /\ UNCHANGED <<dvars, rvars>>
    /\ phase = "constructed"
    /\ ~crashed
    /\ ctl' = r.log
    /\ ret' = [op |-> name, threw |-> r.threw, val |-> r.val, arg |-> arg,
               chan |-> chan]
    /\ UNCHANGED <<phase, nchan, running, sequence, sample_rate, bandwidth, wpc,
                   wN, prev, crashed, devFilter>>

\* netsdr_source_c::set_center_freq(freq, chan)
SetCenterFreq(freq, chan, o1, o2, g) ==
    TunerOp("set_center_freq", freq, chan, set_center_freq(freq, chan, o1, o2, g))

\* netsdr_source_c::get_center_freq(chan)
GetCenterFreq(chan, o, g) ==
    TunerOp("get_center_freq", 0, chan, get_center_freq(chan, o, g))

\* netsdr_source_c::set_gain(gain, chan)
SetGain(gain, chan, o1, o2, g) ==
    TunerOp("set_gain", gain, chan, set_gain(gain, chan, o1, o2, g))

\* netsdr_source_c::get_gain(chan)
GetGain(chan, o, g) ==
    TunerOp("get_gain", 0, chan, get_gain(chan, o, g))

\* netsdr_source_c::get_freq_range(chan)
GetFreqRange(chan, o, g) ==
    TunerOp("get_freq_range", 0, chan, get_freq_range(chan, o, g))

\* ---- sample rates ------------------------------------------------------
\* get_sample_rates: 80e6/(4.0*i) as a fraction
RateOf(i) == [num |-> 80000000, den |-> 4 * i]

\* get_sample_rates: rate > (MAX_RATE / _nchan); both terms of the fraction
\* are multiples of 4
RateTooHigh(r) == (r.num \div 4) * nchan > MAX_RATE * (r.den \div 4)

\* a plausible slip: every rate is listed
IsWhole_always(r) == TRUE

\* get_sample_rates: floor(rate) == rate
IsWhole(r) == r.num % r.den = 0

\* get_sample_rates(): entry, up to the first test of the loop
GetSampleRatesBegin ==
    /\ UNCHANGED <<svars, dvars>>
    /\ phase = "constructed"
    /\ ~crashed
    /\ rpc = "idle"
    /\ rpc' = "loop"
    /\ ri' = 625
    /\ range' = <<>>

\* get_sample_rates(): one test of i >= 10 and, if it holds, one run of the
\* loop body; the function returns when the loop ends
GetSampleRatesIter ==
    /\ UNCHANGED dvars
    /\ rpc = "loop"
    /\ IF ri < 10 \/ RateTooHigh(RateOf(ri))
       THEN /\ rpc' = "idle"
            /\ ret' = [op |-> "get_sample_rates", threw |-> FALSE, val |-> range]
            /\ ctl' = <<>>
            /\ UNCHANGED <<ri, range>>
       ELSE /\ range' = IF IsWhole(RateOf(ri)) THEN Append(range, RateOf(ri))
                        ELSE range
            /\ ri' = ri - 1
            /\ UNCHANGED <<rpc, ret, ctl>>
    /\ UNCHANGED <<phase, nchan, running, sequence, sample_rate, bandwidth, wpc,
                   wN, prev, crashed, devFilter>>

\* ------------------------------------------------------------------------
\* Streaming Decoder
\* ------------------------------------------------------------------------
\* 16-bit sequence numbers the device puts on the wire in the model
SeqVals == {0, 100, 101, 105, 65534, 65535}

\* frame headers on the wire: the two 16-bit ones, the two 24-bit ones and
\* two that are neither
Headers == {<<4, 132>>, <<4, 130>>, <<164, 133>>, <<132, 129>>, <<4, 129>>, <<0, 0>>}

\* byte i (1-based) of the sample payload the device sends
PayloadByte(i) == (37 * i) % 256

\* the first n bytes of a frame with header h and sequence number s
Frame(h, s, n) ==
    [i \in 1 .. n |->
        IF i <= HEADER_SIZE THEN h[i]
        ELSE IF i = HEADER_SIZE + 1 THEN s % 256
        ELSE IF i = HEADER_SIZE + 2 THEN s \div 256
        ELSE PayloadByte(i - HEADER_SIZE - SEQNUM_SIZE)]

Datagrams == {Frame(h, s, n) : h \in Headers, s \in SeqVals, n \in 0 .. MaxLen}

\* what the first four bytes of the uninitialised data[] of work() can hold
\* before the receive
StaleBufs == {<<4, 132, 255, 255>>, <<4, 132, 101, 0>>, <<0, 0, 0, 0>>}

\* data[i] (0-based) after receive_from stored dg over a buffer holding stale
DataByte(dg, stale, i) == IF i < Len(dg) THEN dg[i + 1] ELSE stale[i + 1]

\* a plausible slip: the 24-bit headers are taken for 16-bit frames
IsHeader16_with24(h0, h1) ==
    \/ h0 = 4 /\ (h1 = 132 \/ h1 = 130)
    \/ h0 = 164 /\ h1 = 133
    \/ h0 = 132 /\ h1 = 129

\* work(): the header test that lets a datagram through
IsHeader16(h0, h1) == h0 = 4 /\ (h1 = 132 \/ h1 = 130)

\* a plausible slip: the difference is not reduced to 16 bits
SeqDiff_unwrapped(seq, old) == seq - old

\* work(): uint16_t diff = sequence - _sequence
SeqDiff(seq, old) == (seq - old) % 65536

\* a plausible slip: the test of the tracker update is inverted
NextSequence_inverted(seq) == IF seq = 65535 THEN seq ELSE 0

\* work(): the value stored in _sequence after a datagram
NextSequence(seq) == IF seq = 65535 THEN 0 ELSE seq

\* work(): rx_samples for rx_bytes received bytes, in size_t arithmetic
RxSamples(n) ==
    LET pairs == SizeDiv(SizeSub(SizeSub(SizeT(n), HEADER_SIZE), SEQNUM_SIZE), PAIR_BYTES)
    IN  IF nchan = 2 THEN SizeDiv(pairs, 2) ELSE pairs

\* work(): the int16_t at sample + j of a datagram, j counted from 0 in
\* 16-bit values behind the sequence number (little-endian host)
S16(dg, j) ==
    LET at == HEADER_SIZE + SEQNUM_SIZE + 2 * j
        u  == U16OfBytes(dg[at + 1], dg[at + 2])
    IN  IF u >= 32768 THEN u - 65536 ELSE u

\* a plausible slip: real and imaginary part are taken in the wrong order
Complex_swapped(dg, j) == <<S16(dg, j + 1), S16(dg, j)>>

\* work(): gr_complex( *(sample+0) * SCALE_16, *(sample+1) * SCALE_16 ) with
\* sample at 16-bit value j, as <<re, im>> in units of SCALE_16 = 1/32768
Complex(dg, j) == <<S16(dg, j), S16(dg, j + 1)>>

\* work(): what the copy loop stores through output_items[ch], in order; a
\* count that wrapped around in size_t takes no sample from the datagram
OutSamples(dg, ch) ==
    LET n      == RxSamples(Len(dg))
        cnt    == IF SizeGt(n, Len(dg)) THEN 0 ELSE n[1]
        stride == IF nchan = 2 THEN 4 ELSE 2
    IN  IF ch >= nchan THEN <<>>
        ELSE [k \in 1 .. cnt |-> Complex(dg, stride * (k - 1) + 2 * ch)]

\* a plausible slip: the flag is not looked at before the receive
WorkGate_open == FALSE

\* work(): if ( ! _running ) return WORK_DONE
WorkGate == ~running

\* netsdr_source_c::work() up to the blocking receive_from
WorkEnter(n) ==
    /\ UNCHANGED <<dvars, rvars>>
    /\ phase = "constructed"
    /\ ~crashed
    /\ wpc = "idle"
    /\ IF WorkGate
       THEN /\ ret' = [op |-> "work_done", threw |-> FALSE, val |-> WORK_DONE]
            /\ UNCHANGED <<wpc, wN>>
       ELSE /\ wpc' = "recv"
            /\ wN' = n
            /\ ret' = [op |-> "work_enter", threw |-> FALSE]
    /\ ctl' = <<>>
    /\ UNCHANGED <<phase, nchan, running, sequence, sample_rate, bandwidth, prev,
                   crashed, devFilter>>

\* netsdr_source_c::work(): receive_from throws
WorkReceiveError ==
    /\ UNCHANGED <<dvars, rvars>>
    /\ wpc = "recv"
    /\ ~crashed
    /\ wpc' = "idle"
    /\ ret' = [op |-> "work_recv_failed", threw |-> TRUE]
    /\ ctl' = <<>>
    /\ UNCHANGED <<phase, nchan, running, sequence, sample_rate, bandwidth, wN, prev,
                   crashed, devFilter>>

\* netsdr_source_c::work() from the return of receive_from with datagram dg;
\* die tells whether an out-of-bounds write kills the process
WorkReceive(dg, stale, die) ==
    /\ UNCHANGED <<dvars, rvars>>
    /\ wpc = "recv"
    /\ ~crashed
    /\ wpc' = "idle"
    /\ ctl' = <<>>
    /\ LET len == Len(dg)
           h0  == DataByte(dg, stale, 0)
           h1  == DataByte(dg, stale, 1)
           seq == U16OfBytes(DataByte(dg, stale, HEADER_SIZE),
                             DataByte(dg, stale, HEADER_SIZE + 1))
           diff == SeqDiff(seq, sequence)
           n   == RxSamples(len)
       IN  IF ~IsHeader16(h0, h1)
           THEN /\ ret' = [op |-> "work", threw |-> FALSE, val |-> 0,
                           written |-> SizeT(0), accepted |-> FALSE,
                           h0 |-> h0, h1 |-> h1, len |-> len, seq |-> seq,
                           lossRep |-> FALSE, loss |-> 0, old |-> sequence,
                           p |-> prev, items |-> wN, dg |-> dg,
                           out1 |-> <<>>, out2 |-> <<>>]
                /\ UNCHANGED <<sequence, prev, crashed>>
           ELSE /\ ret' = [op |-> "work", threw |-> FALSE, val |-> SizeToInt(n),
                           written |-> n, accepted |-> TRUE,
                           h0 |-> h0, h1 |-> h1, len |-> len, seq |-> seq,
                           lossRep |-> diff > 1, loss |-> IF diff > 1 THEN diff ELSE 0,
                           old |-> sequence, p |-> prev, items |-> wN, dg |-> dg,
                           out1 |-> OutSamples(dg, 0), out2 |-> OutSamples(dg, 1)]
                /\ sequence' = NextSequence(seq)
                /\ prev' = IF len >= HEADER_SIZE + SEQNUM_SIZE THEN seq ELSE -1
                /\ crashed' = (SizeGt(n, wN) /\ die)
    /\ UNCHANGED <<phase, nchan, running, sample_rate, bandwidth, wN, devFilter>>

\* ------------------------------------------------------------------------
\* Next-state relations of the session
\* ------------------------------------------------------------------------
\* the buffer contents that matter to a datagram: none once it fills the
\* four bytes work() reads unconditionally
StaleFor(dg) == IF Len(dg) < HEADER_SIZE + SEQNUM_SIZE THEN StaleBufs ELSE {<<0, 0, 0, 0>>}

\* the two datagrams of the control-plane specification: a full 16-bit frame
\* and a frame with an unknown header
PlainDatagrams == {Frame(<<4, 132>>, 1, 8), Frame(<<0, 0>>, 0, 4)}

\* a device that answers every command with its echo
Echo(cmd) == {[kind |-> "ok", resp |-> cmd]}

ConstructStep ==
    /\ phase = "created"
    /\ \E n \in NChanArgs, probed \in BOOLEAN, fail \in 0 .. 4, labelled \in BOOLEAN,
          k \in {0, 1, 3}, opt \in {0, 16} :
         \E o1 \in Outcomes(RxChanCmd(ChannelMode(n, opt))),
            o2 \in Outcomes(SampRateCmd(DEFAULT_RATE)),
            o3 \in Outcomes(FilterCmd(0, 0)), g \in Garbage :
              Construct(n, probed, fail, labelled, k, opt, o1, o2, o3, g)

StartStep == phase = "constructed" /\ \E o \in Outcomes(StartCmd) : Start(o)

StopStep == phase = "constructed" /\ \E o \in Outcomes(StopCmd) : Stop(o)

SetSampleRateStep ==
    /\ phase = "constructed"
    /\ \E rate \in Rates, g \in Garbage :
         \E o \in Outcomes(SampRateCmd(F2U32(rate, g))) : SetSampleRate(rate, o, g)

SetBandwidthStep ==
    /\ phase = "constructed"
    /\ \E bw \in Bandwidths, chan \in Chans :
         \E o \in Outcomes(FilterCmd(apply_channel(chan).sel, FilterCode(bw))) :
            SetBandwidth(bw, chan, o)

SetCenterFreqStep ==
    /\ phase = "constructed"
    /\ \E freq \in Freqs, chan \in Chans, g \in Garbage :
         \E o1 \in Outcomes(TuneCmd(apply_channel(chan).sel, F2U32(freq, g))),
            o2 \in Outcomes(FreqQuery(apply_channel(chan).sel)) :
              SetCenterFreq(freq, chan, o1, o2, g)

GetCenterFreqStep ==
    /\ phase = "constructed"
    /\ \E chan \in Chans, g \in Garbage :
         \E o \in Outcomes(FreqQuery(apply_channel(chan).sel)) :
            GetCenterFreq(chan, o, g)

SetGainStep ==
    /\ phase = "constructed"
    /\ \E gain \in Gains, chan \in Chans, g \in Garbage :
         \E o1 \in Outcomes(GainCmd(apply_channel(chan).sel, GainCode(gain))),
            o2 \in Outcomes(GainQuery(apply_channel(chan).sel)) :
              SetGain(gain, chan, o1, o2, g)

GetGainStep ==
    /\ phase = "constructed"
    /\ \E chan \in Chans, g \in Garbage :
         \E o \in Outcomes(GainQuery(apply_channel(chan).sel)) : GetGain(chan, o, g)

GetFreqRangeStep ==
    /\ phase = "constructed"
    /\ \E chan \in Chans, g \in Garbage :
         \E o \in Outcomes(FreqRangeQuery(apply_channel(chan).sel)) :
            GetFreqRange(chan, o, g)

PlainReceiveStep ==
    /\ wpc = "recv"
    /\ \E dg \in PlainDatagrams : WorkReceive(dg, <<0, 0, 0, 0>>, FALSE)

\* the control plane: every outcome of every transaction, a quiet data socket
Next ==
    \/ ConstructStep
    \/ StartStep
    \/ StopStep
    \/ SetSampleRateStep
    \/ SetBandwidthStep
    \/ WorkEnter(MaxItems)
    \/ WorkReceiveError
    \/ PlainReceiveStep

Spec == Init /\ [][Next]_vars

\* the whole control interface of the session: every operation that talks
\* to the device, every outcome of every transaction
SessionNext ==
    \/ ConstructStep
    \/ StartStep
    \/ StopStep
    \/ SetSampleRateStep
    \/ SetBandwidthStep
    \/ SetCenterFreqStep
    \/ GetCenterFreqStep
    \/ SetGainStep
    \/ GetGainStep
    \/ GetFreqRangeStep

SessionSpec == Init /\ [][SessionNext]_vars

EchoConstructStep ==
    /\ phase = "created"
    /\ \E n \in 1 .. 2 :
         \E o1 \in Echo(RxChanCmd(ChannelMode(n, 0))), o2 \in Echo(SampRateCmd(DEFAULT_RATE)),
            o3 \in Echo(FilterCmd(0, 0)), g \in Garbage :
              Construct(n, FALSE, 0, TRUE, 0, 0, o1, o2, o3, g)

\* the gains asked for in the specification of the attenuator: the steps,
\* their neighbours and values between and beyond them
GainArgs == {-40, -31, -30, -29, -25, -21, -20, -19, -15, -11, -10, -9, -5, 0, 5}

GainArgStep ==
    /\ phase = "constructed"
    /\ \E gain \in GainArgs, chan \in 0 .. 1, g \in Garbage :
         \E o1 \in Outcomes(GainCmd(apply_channel(chan).sel, GainCode(gain))),
            o2 \in Echo(GainAnswer(apply_channel(chan).sel)) :
              SetGain(gain, chan, o1, o2, g)

\* the attenuator of a session
GainNext ==
    \/ EchoConstructStep
    \/ GainArgStep

GainSpec == Init /\ [][GainNext]_vars

\* the enumeration of the sample rates of a session
RatesNext ==
    \/ EchoConstructStep
    \/ GetSampleRatesBegin
    \/ GetSampleRatesIter

RatesSpec == Init /\ [][RatesNext]_vars

EchoStartStep == phase = "constructed" /\ \E o \in Echo(StartCmd) : Start(o)

EchoStopStep == phase = "constructed" /\ \E o \in Echo(StopCmd) : Stop(o)

WorkEnterStep == wpc = "idle" /\ \E n \in 1 .. MaxItems : WorkEnter(n)

WorkReceiveStep ==
    /\ wpc = "recv"
    /\ \E dg \in Datagrams :
         \E stale \in StaleFor(dg),
            die \in (IF SizeGt(RxSamples(Len(dg)), wN) THEN BOOLEAN ELSE {FALSE}) :
              WorkReceive(dg, stale, die)

\* the data plane: every datagram, a device that echoes every command
StreamNext ==
    \/ EchoConstructStep
    \/ EchoStartStep
    \/ EchoStopStep
    \/ WorkEnterStep
    \/ WorkReceiveError
    \/ WorkReceiveStep

StreamSpec == Init /\ [][StreamNext]_vars

\* ------------------------------------------------------------------------
\* Discovery Client
\* ------------------------------------------------------------------------
\* a reply of a unit, as the fields of discover_common_msg_t that are read
\* (ipaddr and port least significant byte first) and the datagram's length
UnitA ==
    [len |-> DISCOVER_MSG_SIZE, key0 |-> KEY0, key1 |-> KEY1, op |-> MSG_RESP,
     name |-> "NetSDR", sn |-> "NS000001", ip |-> <<10, 1, 168, 192>>, port |-> <<80, 195>>]
UnitB ==
    [len |-> DISCOVER_MSG_SIZE + 4, key0 |-> KEY0, key1 |-> KEY1, op |-> MSG_RESP,
     name |-> "NetSDR", sn |-> "NS000002", ip |-> <<11, 1, 168, 192>>, port |-> <<81, 195>>]

\* datagrams that can reach the reply port: two units' replies, a truncated
\* reply, replies with a wrong key byte, and a request (another client's)
DiscDatagrams ==
    {UnitA, UnitB,
     [UnitA EXCEPT !.len = DISCOVER_MSG_SIZE - 1],
     [UnitA EXCEPT !.key0 = 0],
     [UnitA EXCEPT !.key1 = 0],
     [UnitA EXCEPT !.op = MSG_REQ]}

NoDatagram ==
    [len |-> 0, key0 |-> 0, key1 |-> 0, op |-> 0, name |-> "", sn |-> "",
     ip |-> <<0, 0, 0, 0>>, port |-> <<0, 0>>]

\* a completion handler queued in the io_service: the bound function, the
\* error code it is invoked with, the datagram of a completed receive, and
\* (history) whether it was started in the current iteration of the loop
RecvHandler(arg, dg) == [h |-> "handle_receive", arg |-> arg, dg |-> dg, fresh |-> TRUE]
TimerHandler(arg) == [h |-> "handle_timer", arg |-> arg, dg |-> NoDatagram, fresh |-> TRUE]

\* a plausible slip: the timer's handler reports the code it was given
handle_timer_passes(arg) == arg

\* handle_timer(ec, out_ec): the value stored in *out_ec
handle_timer(arg) == "timed_out"

\* the test that lets a received datagram into the result
IsReply(n, d) ==
    /\ n >= DISCOVER_MSG_SIZE
    /\ d.key0 = KEY0
    /\ d.key1 = KEY1
    /\ d.op = MSG_RESP

\* the unit_t built from a reply
UnitOf(d) ==
    [name |-> d.name, sn |-> d.sn,
     addr |-> <<d.ip[4], d.ip[3], d.ip[2], d.ip[1]>>,
     port |-> U16OfBytes(d.port[1], d.port[2])]

\* a datagram has arrived that no handler has consumed yet
DatagramWaiting ==
    \/ net # <<>>
    \/ \E i \in 1 .. Len(ready) : ready[i].h = "handle_receive" /\ ready[i].fresh

\* discover_netsdr() up to the loop: the socket is opened and bound and the
\* request is broadcast, or open/bind fails and the empty list is returned
DiscoverBegin(opened) ==
    /\ dpc = "idle"
    /\ dpc' = IF opened THEN "top" ELSE "done"
    /\ dh' = [dh EXCEPT !.opened = opened, !.alive = opened]
    /\ UNCHANGED <<ec, rx_bytes, data, ready, rxPending, tmPending, tmExpired,
                   net, arrivals, units>>
    /\ UNCHANGED <<svars, rvars>>

\* a datagram reaches the bound socket
Arrive(d) ==
    /\ dpc \in {"top", "run", "after"}
    /\ arrivals < MaxArrivals
    /\ net' = Append(net, d)
    /\ arrivals' = arrivals + 1
    /\ dh' = [dh EXCEPT !.expected = IF dh.alive THEN Append(@, d) ELSE @,
                        !.raced = @ \/ (tmPending /\ tmExpired)]
    /\ UNCHANGED <<dpc, ec, rx_bytes, data, ready, rxPending, tmPending, tmExpired, units>>
    /\ UNCHANGED <<svars, rvars>>

\* the head of the loop: ec and rx_bytes are reset, async_receive and the
\* 10 ms async_wait are started, the io_service is reset; immediate tells
\* whether a datagram already in the socket completes the receive at once
IterSetup(immediate) ==
    /\ dpc = "top"
    /\ ec' = "would_block"
    /\ rx_bytes' = 0
    /\ LET old == [i \in 1 .. Len(ready) |-> [ready[i] EXCEPT !.fresh = FALSE]]
           r1  == IF immediate /\ net # <<>>
                  THEN Append(old, RecvHandler("ok", Head(net)))
                  ELSE old
       IN  ready' = IF tmPending THEN Append(r1, [TimerHandler("aborted") EXCEPT !.fresh = FALSE])
                    ELSE r1
    /\ net' = IF immediate /\ net # <<>> THEN Tail(net) ELSE net
    /\ rxPending' = ~(immediate /\ net # <<>>)
    /\ tmPending' = TRUE
    /\ tmExpired' = FALSE
    /\ dpc' = "run"
    /\ UNCHANGED <<data, arrivals, units, dh>>
    /\ UNCHANGED <<svars, rvars>>

\* the 10 ms deadline passes
TimerExpire ==
    /\ dpc = "run"
    /\ tmPending
    /\ ~tmExpired
    /\ tmExpired' = TRUE
    /\ dh' = IF DatagramWaiting THEN [dh EXCEPT !.raced = TRUE]
             ELSE [dh EXCEPT !.alive = FALSE]
    /\ UNCHANGED <<dpc, ec, rx_bytes, data, ready, rxPending, tmPending, net, arrivals, units>>
    /\ UNCHANGED <<svars, rvars>>

\* run_one() polls the reactor: the outstanding receive completes
PollReceive ==
    /\ dpc = "run"
    /\ rxPending
    /\ net # <<>>
    /\ ready' = Append(ready, RecvHandler("ok", Head(net)))
    /\ net' = Tail(net)
    /\ rxPending' = FALSE
    /\ UNCHANGED <<dpc, ec, rx_bytes, data, tmPending, tmExpired, arrivals, units, dh>>
    /\ UNCHANGED <<svars, rvars>>

\* run_one() polls the reactor: the expired wait completes
PollTimer ==
    /\ dpc = "run"
    /\ tmPending
    /\ tmExpired
    /\ ready' = Append(ready, TimerHandler("ok"))
    /\ tmPending' = FALSE
    /\ UNCHANGED <<dpc, ec, rx_bytes, data, rxPending, tmExpired, net, arrivals, units, dh>>
    /\ UNCHANGED <<svars, rvars>>

\* run_one() invokes the first queued handler; the do-while leaves once ec
\* is no longer would_block
RunOne ==
    /\ dpc = "run"
    /\ ready # <<>>
    /\ LET hd == Head(ready)
           e  == IF hd.h = "handle_receive" THEN hd.arg ELSE handle_timer(hd.arg)
       IN  /\ ec' = e
           /\ rx_bytes' = IF hd.h = "handle_receive" THEN hd.dg.len ELSE rx_bytes
           /\ data' = IF hd.h = "handle_receive" /\ hd.arg = "ok" THEN hd.dg ELSE data
           /\ dpc' = IF e = "would_block" THEN "run" ELSE "after"
           /\ dh' = IF hd.h = "handle_timer"
                    THEN [dh EXCEPT !.endFresh = hd.fresh, !.endArg = hd.arg]
                    ELSE dh
    /\ ready' = Tail(ready)
    /\ UNCHANGED <<rxPending, tmPending, tmExpired, net, arrivals, units>>
    /\ UNCHANGED <<svars, rvars>>

\* the rest of the loop body: on timed_out the receive is cancelled and the
\* loop left; otherwise the timer is cancelled and a valid reply appended
IterFinish ==
    /\ dpc = "after"
    /\ IF ec = "timed_out"
       THEN /\ ready' = IF rxPending THEN Append(ready, RecvHandler("aborted", NoDatagram))
                        ELSE ready
            /\ rxPending' = FALSE
            /\ dpc' = "done"
            /\ UNCHANGED <<tmPending, tmExpired, units, dh>>
       ELSE /\ ready' = IF tmPending THEN Append(ready, TimerHandler("aborted")) ELSE ready
            /\ tmPending' = FALSE
            /\ tmExpired' = FALSE
            /\ units' = IF IsReply(rx_bytes, data) THEN Append(units, UnitOf(data)) ELSE units
            /\ dpc' = "top"
            /\ dh' = [dh EXCEPT !.first = FALSE]
            /\ UNCHANGED rxPending
    /\ UNCHANGED <<ec, rx_bytes, data, net, arrivals>>
    /\ UNCHANGED <<svars, rvars>>

DiscNext ==
    \/ \E opened \in BOOLEAN : DiscoverBegin(opened)
    \/ \E d \in DiscDatagrams : Arrive(d)
    \/ \E immediate \in BOOLEAN : IterSetup(immediate)
    \/ TimerExpire
    \/ PollReceive
    \/ PollTimer
    \/ RunOne
    \/ IterFinish

DiscSpec == Init /\ [][DiscNext]_vars

\* the calling thread runs and the clock advances; datagrams need not arrive
DiscLive ==
    /\ Init
    /\ [][DiscNext]_vars
    /\ WF_vars(\E immediate \in BOOLEAN : IterSetup(immediate))
    /\ WF_vars(TimerExpire)
    /\ WF_vars(PollReceive)
    /\ WF_vars(PollTimer)
    /\ WF_vars(RunOne)
    /\ WF_vars(IterFinish)

\* ------------------------------------------------------------------------
\* Properties of the session
\* ------------------------------------------------------------------------
IsWriteCall(e) == e.call = "write_some"

\* C1: after stop(), from any session state and whether the "receiver state =
\* idle" transaction succeeds, gets a wrong-length response or fails at the
\* transport, the running flag is false.
C1_StopLeavesStopped == ret.op = "stop" => ~running

\* a running session whose stop() failed at the transport is stopped
C1_Witness ==
    /\ ret.op = "stop"
    /\ ret.was = "Running"
    /\ ret.threw
    /\ ~running

\* C2: every start() leaves the sequence tracker at 0, makes exactly one
\* write on the control socket, of the "receiver state = run" command, and
\* returns true iff a response came back that is as long as the command.
C2_StartResetsAndRuns ==
    ret.op = "start" =>
        /\ sequence = 0
        /\ Len(SelectSeq(ctl, IsWriteCall)) = 1
        /\ ctl[1] = WriteCall(<<8, 0, 24, 0, 128, 2, 0, 0>>, ctl[1].failed)
        /\ (~ret.threw /\ ret.val)
             <=> (Len(ctl) = 2 /\ ~ctl[2].failed /\ Len(ctl[2].bytes) = Len(ctl[1].bytes))

\* a restart of a stopped session that had streamed: the tracker had left 0
C2_Witness ==
    /\ ret.op = "start"
    /\ ret.was = "Idle"
    /\ ret.old # 0
    /\ ret.val
    /\ sequence = 0

\* C3: while the session is running, set_sample_rate(r) makes no call on the
\* control socket, leaves the cached rate as it was and returns it.
C3_RateFrozenWhileRunning ==
    [][(running /\ ret'.op = "set_sample_rate") =>
           /\ ctl' = <<>>
           /\ sample_rate' = sample_rate
           /\ ~ret'.threw
           /\ ret'.val = sample_rate]_vars

\* a running session was asked for a rate other than the cached one
C3_Witness ==
    /\ ret.op = "set_sample_rate"
    /\ ret.was = "Running"
    /\ ret.arg # sample_rate
    /\ ret.val = sample_rate
    /\ ctl = <<>>

\* ------------------------------------------------------------------------
\* Properties of the streaming decoder
\* ------------------------------------------------------------------------
\* the last step decoded an accepted datagram that carries a sequence field
AcceptedWithSeq ==
    /\ ret.op = "work"
    /\ ret.accepted
    /\ ret.len >= HEADER_SIZE + SEQNUM_SIZE

\* C4 as claimed: for consecutive accepted datagrams with sequence numbers p
\* then s, a loss is reported for the second iff (s - p) mod 65536 > 1, with
\* that difference as the count.
C4_LossIffGapFromPrevious ==
    (AcceptedWithSeq /\ ret.p # -1) =>
        LET d == (ret.seq - ret.p) % 65536
        IN  /\ ret.lossRep <=> d > 1
            /\ ret.lossRep => ret.loss = d

\* C4 amended: the difference is taken from the tracker, which holds 0 after
\* a datagram numbered 0xFFFF: a loss is reported iff (s - p') mod 65536 > 1,
\* p' = 0 if p = 0xFFFF and p otherwise, with that difference as the count.
C4_LossIffGapFromTracker ==
    (AcceptedWithSeq /\ ret.p # -1) =>
        LET q == IF ret.p = 65535 THEN 0 ELSE ret.p
            d == (ret.seq - q) % 65536
        IN  /\ ret.lossRep <=> d > 1
            /\ ret.lossRep => ret.loss = d

\* 0xFFFF then 0x0000: no loss is reported for the second datagram
C4_Witness ==
    /\ AcceptedWithSeq
    /\ ret.p = 65535
    /\ ret.seq = 0
    /\ ~ret.lossRep

\* C5 as claimed: after an accepted datagram the tracker equals its sequence
\* number, for every value, 0xFFFF included.
C5_TrackerIsSequence == AcceptedWithSeq => sequence = ret.seq

\* C5 amended: after an accepted datagram the tracker equals its sequence
\* number, except that it is 0 after a datagram numbered 0xFFFF.
C5_TrackerIsSequenceOrZero ==
    AcceptedWithSeq => sequence = (IF ret.seq = 65535 THEN 0 ELSE ret.seq)

\* a datagram numbered 0xFFFF was accepted and the tracker reads 0
C5_Witness ==
    /\ AcceptedWithSeq
    /\ ret.seq = 65535
    /\ sequence = 0

\* C9: a short or garbled datagram (a header that is not a 16-bit one, or
\* too few bytes for one (I,Q) pair after the header and sequence number)
\* yields zero samples and leaves the decoder running.
C9_ShortYieldsZero ==
    (ret.op = "work" /\ (~ret.accepted \/ ret.len < HEADER_SIZE + SEQNUM_SIZE + PAIR_BYTES)) =>
        /\ ret.val = 0
        /\ SizeIsZero(ret.written)
        /\ ~crashed

\* C10: a datagram whose header is neither (0x04,0x84) nor (0x04,0x82), the
\* 24-bit headers included, produces zero samples without an error, reports
\* no loss and leaves the sequence tracker as it was.
C10_OtherHeaderIgnored ==
    (ret.op = "work" /\ ~(ret.h0 = 4 /\ ret.h1 \in {132, 130})) =>
        /\ ret.val = 0
        /\ SizeIsZero(ret.written)
        /\ ~ret.threw
        /\ ~ret.lossRep
        /\ sequence = ret.old
        /\ ~crashed

\* a 24-bit frame arrived while the tracker was not 0
C10_Witness ==
    /\ ret.op = "work"
    /\ ret.h0 = 164
    /\ ret.h1 = 133
    /\ ret.len > HEADER_SIZE + SEQNUM_SIZE
    /\ ret.old # 0
    /\ sequence = ret.old

\* ------------------------------------------------------------------------
\* Properties of discovery
\* ------------------------------------------------------------------------
\* a reply that passes the validation the protocol asks for
ValidReply(d) == d.len >= 56 /\ d.key0 = 90 /\ d.key1 = 165 /\ d.op = 1

\* the units of the valid replies of a sequence of datagrams, in order
RECURSIVE UnitsOf(_)
UnitsOf(ds) ==
    IF ds = <<>> THEN <<>>
    ELSE (IF ValidReply(Head(ds)) THEN <<UnitOf(Head(ds))>> ELSE <<>>) \o UnitsOf(Tail(ds))

\* C6: discovery ends only in an iteration whose own 10 ms timer expired;
\* an iteration whose receive completed first ends the loop neither itself
\* nor through the timer it cancelled.
C6_EndsOnlyOnOwnTimeout ==
    (dpc = "done" /\ dh.opened) => (dh.endFresh /\ dh.endArg = "ok")

\* C7: the result is exactly the units of the valid replies among the
\* datagrams that arrived before a 10 ms window passed without an arrival,
\* in arrival order (runs in which an arrival and a window's expiry were
\* outstanding together are left aside).
C7_ResultIsEveryValidReply ==
    (dpc = "done" /\ dh.opened /\ ~dh.raced) => units = UnitsOf(dh.expected)

Signed16(lo, hi) == ((lo + 256 * hi + 32768) % 65536) - 32768

\* the k-th (from 1) group of g 16-bit values of a datagram's payload begins
\* behind this many bytes of the datagram
GroupAt(k, g) == 4 + 2 * g * (k - 1)

\* the complex sample whose I value starts behind byte `at` of the datagram d
PairAt(d, at) == <<Signed16(d[at + 1], d[at + 2]), Signed16(d[at + 3], d[at + 4])>>

\* C11: with one channel, an accepted datagram of len >= 4 bytes yields
\* exactly floor((len - 4) / 4) samples, and sample k is the k-th (I, Q) pair
\* of signed 16-bit little-endian values of the payload, in arrival order.
C11_OneChannelPairs ==
    (ret.op = "work" /\ ret.accepted /\ nchan = 1 /\ ret.len >= 4) =>
        /\ ret.val = (ret.len - 4) \div 4
        /\ ret.written = SizeT((ret.len - 4) \div 4)
        /\ Len(ret.out1) = (ret.len - 4) \div 4
        /\ ret.out2 = <<>>
        /\ \A k \in 1 .. Len(ret.out1) : ret.out1[k] = PairAt(ret.dg, GroupAt(k, 2))

\* a one-channel decode of three pairs with a negative value among them and
\* a trailing partial pair
C11_Witness ==
    /\ ret.op = "work" /\ ret.accepted /\ nchan = 1
    /\ ret.len = 4 + 3 * 4 + 3
    /\ Len(ret.out1) = 3
    /\ \E k \in 1 .. 3 : ret.out1[k][2] < 0 /\ ret.out1[k][1] > 0

\* the (I, Q) pairs a datagram of len bytes carries behind its sequence number
AvailablePairs(len) == IF len >= 4 THEN (len - 4) \div 4 ELSE 0

\* C12: with two channels, an accepted datagram yields
\* floor(available_pairs / 2) samples on each channel, sample k of channel 1
\* from the 16-bit values 4k, 4k+1 of the payload and sample k of channel 2
\* from the values 4k+2, 4k+3 (k from 0), in order.
C12_TwoChannelDeinterleave ==
    (ret.op = "work" /\ ret.accepted /\ nchan = 2) =>
        /\ ret.val = AvailablePairs(ret.len) \div 2
        /\ ret.written = SizeT(AvailablePairs(ret.len) \div 2)
        /\ Len(ret.out1) = AvailablePairs(ret.len) \div 2
        /\ Len(ret.out2) = Len(ret.out1)
        /\ \A k \in 1 .. Len(ret.out1) :
              /\ ret.out1[k] = PairAt(ret.dg, GroupAt(k, 4))
              /\ ret.out2[k] = PairAt(ret.dg, GroupAt(k, 4) + 4)

\* C13: a decode call made with a request for up to N samples per channel
\* never writes or returns more than N samples on any channel, whatever the
\* size of the received datagram.
C13_AtMostRequested ==
    ret.op = "work" =>
        /\ ~SizeGt(ret.written, ret.items)
        /\ ret.val <= ret.items
        /\ Len(ret.out1) <= ret.items
        /\ Len(ret.out2) <= ret.items
        /\ ~crashed

\* ------------------------------------------------------------------------
\* Stopping the decoder
\* ------------------------------------------------------------------------
\* a step that is an invocation of work()
WorkInvoked == wpc = "idle" /\ ret'.op \in {"work_done", "work_enter"}

\* C14: stop() leaves the session stopped and a receive in flight as it is;
\* an invocation of work() on the stopped session returns the "done" signal
\* with no receive on the data socket, no sample and the sequence tracker
\* unchanged.
C14_StoppedWorkIsDone ==
    [][/\ ret'.op = "stop" => (~running' /\ wpc' = wpc /\ wN' = wN)
       /\ (~running /\ WorkInvoked) =>
              /\ ret' = [op |-> "work_done", threw |-> FALSE, val |-> WORK_DONE]
              /\ wpc' = "idle"
              /\ sequence' = sequence
              /\ prev' = prev]_vars

\* work() returned "done" on a session stopped after it had streamed: the
\* tracker still holds the last datagram's number
C14_Witness ==
    /\ ret.op = "work_done"
    /\ ~running
    /\ prev = 1
    /\ sequence = 1

\* ------------------------------------------------------------------------
\* Failures of a transaction
\* ------------------------------------------------------------------------
\* the operations said to absorb a failed transaction, and the two getters
\* said to fail with it
AbsorbingOps ==
    {"set_center_freq", "set_gain", "set_bandwidth", "set_sample_rate",
     "get_freq_range", "start", "stop"}
FatalGetters == {"get_center_freq", "get_gain"}

\* the last operation had a transport error on the control socket
TransportFailed == \E i \in 1 .. Len(ctl) : ctl[i].failed

\* the last operation read a response of another length than its command
WrongLength ==
    \E i \in 1 .. Len(ctl) :
        /\ ctl[i].call = "read_some" /\ ~ctl[i].failed
        /\ Len(ctl[i].bytes) # Len(ctl[i - 1].bytes)

\* C15: a transport error or a wrong-length response during set_center_freq,
\* set_gain, set_bandwidth, set_sample_rate, get_freq_range, start and stop
\* never reaches the caller as a failure; get_center_freq and get_gain fail
\* hard on a failed transaction.
C15_FailuresAbsorbed ==
    /\ (ret.op \in AbsorbingOps /\ (TransportFailed \/ WrongLength)) => ~ret.threw
    /\ (ret.op \in FatalGetters /\ TransportFailed) => ret.threw

\* ------------------------------------------------------------------------
\* Half-duplex use of the control channel
\* ------------------------------------------------------------------------
\* a log of socket calls in which writes and reads alternate, beginning with
\* a write; only a call that failed may end it early
Alternates(log) ==
    /\ \A i \in 1 .. Len(log) :
          /\ log[i].call = (IF i % 2 = 1 THEN "write_some" ELSE "read_some")
          /\ log[i].failed => i = Len(log)
    /\ Len(log) % 2 = 1 => log[Len(log)].failed

\* the little-endian 32-bit value in bytes i .. i+3 (0-based) of b
LE32(b, i) == b[i + 1] + 256 * b[i + 2] + 65536 * b[i + 3] + 16777216 * b[i + 4]

\* the bytes of the last receive of the last operation
LastRead == ctl[Len(ctl)].bytes

\* C16: the calls an operation makes on the control socket alternate, one
\* write of the whole command then one read before the next command, and
\* the bytes of the read are the response the operation works on.
C16_HalfDuplex ==
    /\ Alternates(ctl)
    /\ (ret.op \in {"get_center_freq", "set_center_freq"} /\ ~ret.threw
            /\ Len(LastRead) >= 5)
          => ret.val = LE32(LastRead, Len(LastRead) - 5)
    /\ (ret.op = "get_gain" /\ ~ret.threw)
          => (ret.val + 256) % 256 = LastRead[Len(LastRead)]
    /\ (ret.op = "set_sample_rate" /\ ~ret.threw /\ ctl # <<>> /\ Len(LastRead) >= 9)
          => (sample_rate = LE32(LastRead, 5) /\ ret.val = sample_rate)
    /\ (ret.op \in {"start", "stop", "set_bandwidth"} /\ ~ret.threw /\ ctl # <<>>)
          => Len(ctl) = 2

\* set_center_freq made two whole transactions and returned what the device
\* answered to the second
C16_Witness ==
    /\ ret.op = "set_center_freq" /\ ~ret.threw
    /\ Len(ctl) = 4
    /\ ctl[4].bytes # ctl[3].bytes
    /\ ret.val \in DeviceFreqs

\* ------------------------------------------------------------------------
\* Tuning
\* ------------------------------------------------------------------------
\* the selector byte of a valid channel index
SelectorOf(chan) == IF chan = 0 THEN 0 ELSE 2

\* chan is a channel of the session
ValidChan(chan) == chan = 0 \/ (chan = 1 /\ nchan = 2)

C18_OtherBandwidthIgnored ==
    (ret.op = "set_bandwidth" /\ ret.arg # 0 /\ ret.arg # BANDWIDTH) =>
        /\ bandwidth = ret.was
        /\ devFilter = ret.dev

\* ------------------------------------------------------------------------
\* Channel selectors
\* ------------------------------------------------------------------------
\* the operations that take a channel index
ChannelOps ==
    {"set_bandwidth", "set_center_freq", "get_center_freq", "set_gain", "get_gain",
     "get_freq_range"}

\* the last operation wrote its commands with control byte b in the selector
\* position, at least one of them
WroteSelector(b) ==
    /\ ctl # <<>>
    /\ \A i \in 1 .. Len(ctl) : ctl[i].call = "write_some" => ctl[i].bytes[5] = b

\* the last operation failed on its channel index before any command
InvalidChannel == ret.threw /\ ctl = <<>>

\* C19: with 1 or 2 channels, index 0 is accepted and written as control
\* byte 0; index 1 is accepted and written as control byte 2 iff there are
\* 2 channels and fails as invalid with 1 channel; any other index fails.
C19_ChannelSelector ==
    (ret.op \in ChannelOps) =>
        /\ nchan \in {1, 2}
        /\ ret.chan = 0 => WroteSelector(0)
        /\ (ret.chan = 1 /\ nchan = 2) => WroteSelector(2)
        /\ (ret.chan = 1 /\ nchan = 1) => InvalidChannel
        /\ ret.chan \notin {0, 1} => InvalidChannel

\* index 1 was refused on a one-channel session
C19_Witness ==
    /\ ret.op = "set_gain"
    /\ ret.chan = 1 /\ nchan = 1
    /\ InvalidChannel

\* ------------------------------------------------------------------------
\* Sample-rate enumeration
\* ------------------------------------------------------------------------
\* the value of a listed rate, rounded down
RateValue(r) == r.num \div r.den

\* C20: the sample rates listed for 1 or 2 channels, in the order of the
\* divisor i falling from 625 to 10, never decrease, are all whole numbers
\* 80e6/(4*i), and none exceeds 2000000 / channel count.
C20_SampleRatesListed ==
    ret.op = "get_sample_rates" =>
        /\ nchan \in {1, 2}
        /\ \A k \in 1 .. Len(ret.val) :
              /\ ret.val[k].num = 80000000
              /\ \E i \in 10 .. 625 : ret.val[k].den = 4 * i
              /\ ret.val[k].num % ret.val[k].den = 0
              /\ RateValue(ret.val[k]) * nchan <= 2000000
              /\ k > 1 => /\ RateValue(ret.val[k - 1]) <= RateValue(ret.val[k])
                          /\ ret.val[k - 1].den > ret.val[k].den

\* the list of a two-channel session: it begins with 80e6/(4*625) = 32000
\* and ends with 1000000
C20_Witness ==
    /\ ret.op = "get_sample_rates" /\ nchan = 2
    /\ Len(ret.val) >= 10
    /\ RateValue(ret.val[1]) = 32000
    /\ RateValue(ret.val[Len(ret.val)]) = 1000000

\* ------------------------------------------------------------------------
\* Attenuator
\* ------------------------------------------------------------------------
\* the attenuation code the step function assigns to a gain
StepCode(gain) ==
    CASE gain <= -30 -> 226
      [] gain > -30 /\ gain <= -20 -> 236
      [] gain > -20 /\ gain <= -10 -> 246
      [] gain > -10 -> 0

\* C21: the attenuation code set_gain sends is a total step function of the
\* gain asked for: 0xE2 up to -30, 0xEC above -30 up to -20, 0xF6 above -20
\* up to -10 and 0x00 above -10; -30, -25, -15, -5, 0, 5 give 0xE2, 0xE2,
\* 0xEC, 0xF6, 0x00, 0x00.
C21_GainSteps ==
    (ret.op = "set_gain" /\ ctl # <<>>) =>
        /\ ctl[1].call = "write_some"
        /\ Len(ctl[1].bytes) = 6
        /\ SubSeq(ctl[1].bytes, 1, 4) = <<6, 0, 56, 0>>
        /\ ctl[1].bytes[6] = StepCode(ret.arg)
        /\ ret.arg = -30 => ctl[1].bytes[6] = 226
        /\ ret.arg = -25 => ctl[1].bytes[6] = 226
        /\ ret.arg = -15 => ctl[1].bytes[6] = 236
        /\ ret.arg = -5 => ctl[1].bytes[6] = 246
        /\ ret.arg \in {0, 5} => ctl[1].bytes[6] = 0

\* C21 as amended: the code sent is the step function above, under which
\* -30, -25, -15, -5, 0, 5 give 0xE2, 0xEC, 0xF6, 0x00, 0x00, 0x00.
C21_GainStepsOfTheFunction ==
    (ret.op = "set_gain" /\ ctl # <<>>) =>
        /\ ctl[1].call = "write_some"
        /\ Len(ctl[1].bytes) = 6
        /\ SubSeq(ctl[1].bytes, 1, 4) = <<6, 0, 56, 0>>
        /\ ctl[1].bytes[6] = StepCode(ret.arg)
        /\ ret.arg = -30 => ctl[1].bytes[6] = 226
        /\ ret.arg = -25 => ctl[1].bytes[6] = 236
        /\ ret.arg = -15 => ctl[1].bytes[6] = 246
        /\ ret.arg \in {-5, 0, 5} => ctl[1].bytes[6] = 0

\* a gain on a step, sent with the code of the step it closes
C21_Witness ==
    /\ ret.op = "set_gain" /\ ~ret.threw
    /\ ret.arg = -20
    /\ ctl[1].bytes = <<6, 0, 56, 0, 2, 236>>

\* ------------------------------------------------------------------------
\* Construction
\* ------------------------------------------------------------------------
\* C22: constructing a session with a channel count other than 1 or 2 fails
\* before the control connection is opened, before the data socket is opened
\* or bound and before any command is sent; no session exists afterwards.
C22_BadCountFailsEarly ==
    (ret.op = "construct" /\ ret.arg \notin {1, 2}) =>
        /\ ret.threw
        /\ phase = "failed"
        /\ ctl = <<>>
        /\ \A i \in 1 .. Len(ret.setup) :
              ret.setup[i] \notin {"resolve", "connect", "open", "bind"}
        /\ ~running /\ sample_rate = 0 /\ bandwidth = 0

\* a channel count of 3 was refused
C22_Witness ==
    /\ ret.op = "construct" /\ ret.arg = 3
    /\ ret.threw
    /\ phase = "failed"

\* ------------------------------------------------------------------------
\* A start that failed
\* ------------------------------------------------------------------------
\* C23: start() leaves the session flagged Running whatever became of its
\* transaction; from then on and until stop() is called the flag stays set,
\* set_sample_rate is rejected without a transaction and an invocation of
\* work() goes on to the receive.
C23_FailedStartStaysRunning ==
    [][/\ ret'.op = "start" => running'
       /\ (running /\ ~running') => ret'.op = "stop"
       /\ (running /\ ret'.op = "set_sample_rate") =>
              /\ sample_rate' = sample_rate
              /\ ctl' = <<>>
              /\ ~ret'.threw
              /\ ret'.val = sample_rate
       /\ (running /\ WorkInvoked) =>
              /\ ret'.op = "work_enter"
              /\ wpc' = "recv"]_vars

\* start() came back false, the device having refused the command, and the
\* session is flagged Running
C23_Witness ==
    /\ ret.op = "start"
    /\ ~ret.threw /\ ret.val = FALSE
    /\ ctl[2].bytes = NAK
    /\ running

\* ------------------------------------------------------------------------
\* An invalid channel
\* ------------------------------------------------------------------------
\* the step is a per-channel operation called with an index that is not a
\* channel of the session
InvalidChannelCall ==
    /\ ret'.op \in ChannelOps
    /\ ~(ret'.chan = 0 \/ (ret'.chan = 1 /\ nchan = 2))

\* C24: a per-channel operation called with an invalid channel index fails
\* before any command is written to the control channel and leaves the
\* cached bandwidth, the sample rate, the running flag and the sequence
\* tracker as they were.
C24_InvalidChannelNoEffect ==
    [][InvalidChannelCall =>
          /\ ret'.threw
          /\ ctl' = <<>>
          /\ bandwidth' = bandwidth
          /\ sample_rate' = sample_rate
          /\ running' = running
          /\ sequence' = sequence
          /\ devFilter' = devFilter]_vars

\* the bypass bandwidth was asked for on a channel a one-channel session
\* does not have, and the cached bandwidth is still 0
C24_Witness ==
    /\ ret.op = "set_bandwidth" /\ ret.arg = BANDWIDTH
    /\ ret.chan = 1 /\ nchan = 1
    /\ ret.threw /\ ctl = <<>>
    /\ bandwidth = 0
====
